---- MODULE Spec2Model ----
(***************************************************************************)
(* Model of src/src/document_extractor.py: extract_lease_data_from_text    *)
(* (the rent, term, renewal, review-flag, escalator, acreage and per-acre  *)
(* passes) and process_document.                                           *)
(*                                                                         *)
(* The regular-expression engine is a library: a document text is          *)
(* represented by what re.search / re.finditer / re.findall yield on it,   *)
(* pattern by pattern, i.e. by the captured strings.  Everything the       *)
(* program itself does with a capture (stripping separators, int(),        *)
(* float(), range checks, max / min, arithmetic, the try / except blocks)  *)
(* is modelled, with Python's unbounded ints and IEEE-754 doubles.         *)
(* The name, location and developer fields are not modelled: no operation  *)
(* on them can raise and nothing else reads them.                          *)
(***************************************************************************)
EXTENDS Integers, Sequences, FiniteSets, Bags, TLC

VARIABLES
    caller,            \* "extract": direct call; "process_document"
    file,              \* the file handed to process_document
    text,              \* the text, as the captures the patterns yield on it
    pc,                \* position in the code
    lease_data,        \* the record under construction (line 55)
    term_candidates,   \* line 126
    total_term_from_renewal,  \* line 141
    result             \* what the outermost call returned

vars == <<caller, file, text, pc, lease_data, term_candidates,
          total_term_from_renewal, result>>

(***************************************************************************)
(* Python values                                                           *)
(***************************************************************************)
\* None, and a present value x, of an optional field.
None == <<>>
Some(x) == <<x>>
IsNone(o) == o = <<>>
Val(o) == o[1]

Max(S) == CHOOSE m \in S : \A x \in S : x <= m
Min(S) == CHOOSE m \in S : \A x \in S : m <= x
Range(s) == {s[i] : i \in DOMAIN s}
\* The sum of a sequence of natural numbers: the cardinality of the bag with
\* f[i] + 1 copies of each i, less one copy of each.
Sum(f) == BagCardinality([i \in DOMAIN f |-> f[i] + 1]) - Len(f)

(***************************************************************************)
(* Python int.  The integers of the program are unbounded and non-negative *)
(* (no pattern captures a sign): an int is its sequence of limbs in base   *)
(* 10^4, least significant first, without a most significant zero limb, so *)
(* that 0 is <<>>, 30 is <<30>> and 50000 is <<0, 5>>.  The operators are  *)
(* written without deep recursion: carries are located, not rippled.       *)
(***************************************************************************)
Base == 100 * 100

\* The int of a machine integer n >= 0.
RECURSIVE IntOf(_)
IntOf(n) == IF n = 0 THEN <<>> ELSE <<n % Base>> \o IntOf(n \div Base)

Limb(a, i) == IF 1 <= i /\ i <= Len(a) THEN a[i] ELSE 0
Trim(a) ==
    LET nz == {i \in DOMAIN a : a[i] # 0}
    IN  IF nz = {} THEN <<>> ELSE SubSeq(a, 1, Max(nz))
\* a * Base^k
ShiftLimbs(a, k) == IF a = <<>> THEN <<>> ELSE [i \in 1..k |-> 0] \o a

\* a < b, a <= b
IntLess(a, b) ==
    IF Len(a) # Len(b) THEN Len(a) < Len(b)
    ELSE LET diff == {i \in DOMAIN a : a[i] # b[i]}
         IN  diff # {} /\ a[Max(diff)] < b[Max(diff)]
IntLeq(a, b) == ~IntLess(b, a)
IntMax(S) == CHOOSE m \in S : \A x \in S : IntLeq(x, m)
IntMin(S) == CHOOSE m \in S : \A x \in S : IntLeq(m, x)
IsOdd(a) == a # <<>> /\ a[1] % 2 = 1

\* a + b.  The carry into limb i comes out of the nearest lower limb whose
\* sum is not Base - 1.
IntAdd(a, b) ==
    IF a = <<>> THEN b ELSE IF b = <<>> THEN a ELSE
    LET n == Max({Len(a), Len(b)})
        s == SubSeq([i \in 1..(n + 1) |-> Limb(a, i) + Limb(b, i)], 1, n + 1)
        carry(i) ==
            IF i = 1 THEN 0
            ELSE IF s[i - 1] # Base - 1 THEN (IF s[i - 1] >= Base THEN 1 ELSE 0)
            ELSE LET J == {j \in 1..(i - 1) : s[j] # Base - 1}
                 IN  IF J # {} /\ s[Max(J)] >= Base THEN 1 ELSE 0
    IN  Trim([i \in 1..(n + 1) |-> (s[i] + carry(i)) % Base])

\* a * b for b of at most two limbs: the column sums, split into three ints.
IntMul2(a, b) ==
    IF a = <<>> \/ b = <<>> THEN <<>> ELSE
    LET col == SubSeq([k \in 1..(Len(a) + 1) |->
                          Limb(a, k) * Limb(b, 1) + Limb(a, k - 1) * Limb(b, 2)],
                      1, Len(a) + 1)
        low == Trim([k \in DOMAIN col |-> col[k] % Base])
        mid == Trim([k \in DOMAIN col |-> (col[k] \div Base) % Base])
        high == Trim([k \in DOMAIN col |-> col[k] \div (Base * Base)])
    IN  IntAdd(IntAdd(low, ShiftLimbs(mid, 1)), ShiftLimbs(high, 2))

\* a * b, by pairs of limbs of the shorter factor.
RECURSIVE IntMulBy(_, _)
IntMulBy(a, b) ==
    IF Len(b) <= 2 THEN IntMul2(a, b)
    ELSE LET h == 2 * ((Len(b) + 3) \div 4)
             lo == IntMulBy(a, SubSeq(b, 1, h))
             hi == IntMulBy(a, SubSeq(b, h + 1, Len(b)))
         IN  IntAdd(lo, ShiftLimbs(hi, h))
IntMul(a, b) ==
    IntMulBy(IF Len(a) < Len(b) THEN b ELSE a, IF Len(a) < Len(b) THEN a ELSE b)

RECURSIVE SmallPow(_, _)
SmallPow(b, n) == IF n = 0 THEN 1 ELSE b * SmallPow(b, n - 1)

\* b^n for b = 2 or b = 5, from the powers that fit a machine integer.
RECURSIVE IntPow(_, _)
IntPow(b, n) ==
    IF n <= 11 THEN IntOf(SmallPow(b, n))
    ELSE IntMul(IntPow(b, n \div 2), IntPow(b, n - n \div 2))
\* The small powers are tabulated, the large ones are products of them.
Pow2Table == SubSeq([n \in 1..128 |-> IntPow(2, n)], 1, 128)
Pow5Table == SubSeq([n \in 1..64 |-> IntPow(5, n)], 1, 64)
RECURSIVE Pow2(_)
Pow2(n) ==
    IF n = 0 THEN <<1>>
    ELSE IF n <= 128 THEN Pow2Table[n]
    ELSE IntMul(Pow2(n \div 2), Pow2(n - n \div 2))
RECURSIVE Pow5(_)
Pow5(n) ==
    IF n = 0 THEN <<1>>
    ELSE IF n <= 64 THEN Pow5Table[n]
    ELSE IntMul(Pow5(n \div 2), Pow5(n - n \div 2))

\* The decimal digit of a at position p >= 1, counted from the units, and
\* whether a has a non-zero digit at or below position p.
DigitAt(a, p) ==
    (Limb(a, (p - 1) \div 4 + 1) \div SmallPow(10, (p - 1) % 4)) % 10
HasLowDigits(a, p) ==
    \/ \E i \in 1..(p \div 4) : Limb(a, i) # 0
    \/ Limb(a, p \div 4 + 1) % SmallPow(10, p % 4) # 0

\* a \div 10^k, and how the remainder compares with half of 10^k.
IntDivPow10(a, k) ==
    IF a = <<>> THEN [q |-> <<>>, rem |-> "zero"] ELSE
    LET w == k \div 4
        low == SmallPow(10, k % 4)
        high == SmallPow(10, 4 - (k % 4))
    IN  [q |-> Trim([j \in 1..(Len(a) - w) |->
                        Limb(a, j + w) \div low + (Limb(a, j + w + 1) % low) * high]),
         rem |-> IF ~HasLowDigits(a, k) THEN "zero"
                 ELSE IF DigitAt(a, k) < 5 THEN "below"
                 ELSE IF DigitAt(a, k) = 5 /\ ~HasLowDigits(a, k - 1) THEN "half"
                 ELSE "above"]
\* a \div 2^n = (a * 5^n) \div 10^n, and a \div 5^n likewise.
IntDivPow2(a, n) == IntDivPow10(IntMul(a, Pow5(n)), n)
IntDivPow5(a, n) == IntDivPow10(IntMul(a, Pow2(n)), n)

\* The limbs of (rem * Base^Len(a) + a) \div c for a machine integer c, and
\* the remainder; the high half is divided first.
RECURSIVE DivLimbs(_, _, _)
DivLimbs(a, c, rem) ==
    IF a = <<>> THEN [limbs |-> <<>>, rem |-> rem]
    ELSE IF Len(a) = 1
         THEN [limbs |-> <<(rem * Base + a[1]) \div c>>,
               rem |-> (rem * Base + a[1]) % c]
         ELSE LET h == Len(a) \div 2
                  hi == DivLimbs(SubSeq(a, h + 1, Len(a)), c, rem)
                  lo == DivLimbs(SubSeq(a, 1, h), c, hi.rem)
              IN  IF hi.rem >= c THEN hi
                  ELSE [limbs |-> lo.limbs \o hi.limbs, rem |-> lo.rem]
\* a \div c, and whether the division left a remainder.
IntDivSmall(a, c) ==
    LET r == DivLimbs(a, c, 0)
    IN  [q |-> Trim(r.limbs), rem |-> IF r.rem = 0 THEN "zero" ELSE "nonzero"]

\* Number of decimal digits of a > 0.
DecLen(a) ==
    LET top == a[Len(a)]
    IN  4 * (Len(a) - 1)
        + (IF top < 10 THEN 1 ELSE IF top < 100 THEN 2
           ELSE IF top < 1000 THEN 3 ELSE 4)

\* The least x in lo..hi with a < 2^x, given p = 2^lo.
BitLenIn(a, lo, hi, p) ==
    Min({x \in lo..hi : IntLess(a, IntMul2(p, <<SmallPow(2, x - lo)>>))})
\* Number of bits of a > 0: the least x with a < 2^x.  With d decimal digits
\* it is more than 3.321 * (d - 1) and at most 3.322 * d + 1.
BitLen(a) ==
    LET lo == ((DecLen(a) - 1) * 3321) \div 1000 + 1
        hi == (DecLen(a) * 3322) \div 1000 + 1
    IN  BitLenIn(a, lo, hi, Pow2(lo))

(***************************************************************************)
(* Python float: an IEEE-754 binary64 value.  A finite (non-negative)      *)
(* float is m * 2^e with m an int below 2^53 and MinExp <= e <= MaxExp,    *)
(* m >= 2^52 unless e = MinExp; 0.0 is m = 0, e = MinExp.  Conversions and *)
(* arithmetic round to nearest, ties to even.                              *)
(***************************************************************************)
MinExp == (-1022) - 52
MaxExp == 1023 - 52
Fin(m, e) == [kind |-> "fin", m |-> m, e |-> e]
Zero == Fin(<<>>, MinExp)
Inf == [kind |-> "inf", m |-> <<>>, e |-> 0]
NaN == [kind |-> "nan", m |-> <<>>, e |-> 0]

\* The quotient d of a division, rounded to nearest, ties to even; sticky
\* when the dividend was a little more than the int divided.
Nearest(d, sticky) ==
    IF d.rem = "above" \/ (d.rem = "half" /\ (sticky \/ IsOdd(d.q)))
    THEN IntAdd(d.q, <<1>>) ELSE d.q
\* The float m * 2^e of a rounded m <= 2^53 = top; m = top is 2^52 * 2^(e+1).
Normal(m, e, top) ==
    IF m = <<>> THEN Zero
    ELSE IF m = top
         THEN (IF e + 1 > MaxExp THEN Inf ELSE Fin(IntDivSmall(top, 2).q, e + 1))
         ELSE IF e > MaxExp THEN Inf ELSE Fin(m, e)
\* The float nearest to a * 2^E with the exponent e: exact when e <= E.
RoundAt(a, E, sticky, bl, e) ==
    IF e <= E THEN (IF e > MaxExp THEN Inf ELSE Fin(IntMul(a, Pow2(E - e)), e))
    ELSE IF e - E > bl + 1 THEN Zero
    ELSE Normal(Nearest(IntDivPow2(a, e - E), sticky), e, Pow2(53))
\* The float nearest to a * 2^E for a of bl bits: 53 bits are kept, fewer
\* at the least exponent.
RoundBits(a, E, sticky, bl) == RoundAt(a, E, sticky, bl, Max({bl - 53 + E, MinExp}))
\* The float nearest to a * 2^E, or to a little more than that when sticky
\* (then a has more than 53 bits).
RoundToFloat(a, E, sticky) ==
    IF a = <<>> THEN Zero ELSE RoundBits(a, E, sticky, BitLen(a))
\* The float nearest to d.q * 2^E, d the quotient of an int division.
RoundQuotient(d, E, sticky) == RoundToFloat(d.q, E, sticky \/ d.rem # "zero")

\* float(n) of a small machine integer.
FloatOf(n) == RoundToFloat(IntOf(n), 0, FALSE)

\* a <= b
FloatLeq(a, b) ==
    IF a.kind = "nan" \/ b.kind = "nan" THEN FALSE
    ELSE IF b.kind = "inf" THEN TRUE
    ELSE IF a.kind = "inf" THEN FALSE
    ELSE \/ a.m = <<>>
         \/ b.m # <<>> /\ (a.e < b.e \/ (a.e = b.e /\ IntLeq(a.m, b.m)))
\* max(a, b)
FloatMax(a, b) ==
    IF a.kind = "inf" \/ b.kind = "inf" THEN Inf
    ELSE IF FloatLeq(a, b) THEN b ELSE a
\* a * b
FloatMul(a, b) ==
    IF a.kind = "fin" /\ b.kind = "fin"
    THEN RoundToFloat(IntMul(a.m, b.m), a.e + b.e, FALSE)
    ELSE IF (a.kind = "fin" /\ a.m = <<>>) \/ (b.kind = "fin" /\ b.m = <<>>)
         \/ a.kind = "nan" \/ b.kind = "nan" THEN NaN
    ELSE Inf
\* a / 100.0 for a finite float a: (a.m * 2^10 \div 100) * 2^(a.e - 10)
FloatDiv100(a) ==
    RoundQuotient(IntDivPow10(IntMul(a.m, Pow2(10)), 2), a.e - 10, FALSE)
\* n / c of an int n and a small machine integer c: a float
IntTrueDiv(n, c) ==
    RoundQuotient(IntDivSmall(IntMul(n, Pow2(70)), c), -70, FALSE)
\* n < x for an int n and a float x
IntLessFloat(n, x) ==
    IF x.kind # "fin" THEN x.kind = "inf"
    ELSE IF n = <<>> THEN x.m # <<>>
    ELSE IF x.e >= 0 THEN IntLess(n, IntMul(x.m, Pow2(x.e)))
    ELSE IntLess(IntMul(n, Pow2(-x.e)), x.m)
\* bool(x) of a float: 0.0 is false.
FloatTruthy(a) == ~(a.kind = "fin" /\ a.m = <<>>)
\* int(x) of a finite float truncates.
Trunc(x) ==
    IF x.e >= 0 THEN IntMul(x.m, Pow2(x.e))
    ELSE IF -x.e > 53 THEN <<>>
    ELSE IntDivPow2(x.m, -x.e).q

(***************************************************************************)
(* Strings.  A string is a sequence of runs <<c, n>>: character c repeated *)
(* n times, so that a digit string longer than the interpreter's           *)
(* conversion limit is a value the model can hold.                         *)
(***************************************************************************)
DigitChar == <<"0", "1", "2", "3", "4", "5", "6", "7", "8", "9">>
DigitVal(c) == CHOOSE d \in 0..9 : DigitChar[d + 1] = c

Str(chars) == [i \in DOMAIN chars |-> <<chars[i], 1>>]
Rep(c, n) == << <<c, n>> >>

\* str(n) of a small natural number n.
RECURSIVE Digits(_)
Digits(n) == IF n < 10 THEN Str(<<DigitChar[n + 1]>>)
             ELSE Digits(n \div 10) \o Str(<<DigitChar[(n % 10) + 1]>>)

\* len(s), and the position in s of the last character of each run.
StrLen(s) == Sum([i \in DOMAIN s |-> s[i][2]])
Ends(s) == SubSeq([i \in DOMAIN s |-> Sum([j \in 1..i |-> s[j][2]])], 1, Len(s))
\* s[from - 1 : to], as a sequence of characters.
Chars(s, from, to) ==
    LET ends == Ends(s)
    IN  SubSeq([p \in 1..(to - from + 1) |->
                   s[Min({i \in DOMAIN s : ends[i] >= p + from - 1})][1]],
               1, to - from + 1)

\* s.replace(',', '')
IsNotComma(run) == run[1] # ","
StripCommas(s) == SelectSeq(s, IsNotComma)

\* str.lower() on ASCII text: the letters A-Z are folded, every other
\* character is kept.
UpperChars == <<"A", "B", "C", "D", "E", "F", "G", "H", "I", "J", "K", "L", "M",
                "N", "O", "P", "Q", "R", "S", "T", "U", "V", "W", "X", "Y", "Z">>
LowerChars == <<"a", "b", "c", "d", "e", "f", "g", "h", "i", "j", "k", "l", "m",
                "n", "o", "p", "q", "r", "s", "t", "u", "v", "w", "x", "y", "z">>
LowerChar(c) ==
    IF \E i \in DOMAIN UpperChars : UpperChars[i] = c
    THEN LowerChars[CHOOSE i \in DOMAIN UpperChars : UpperChars[i] = c]
    ELSE c
lower(s) == [i \in DOMAIN s |-> <<LowerChar(s[i][1]), s[i][2]>>]

\* s == t for two strings.
StrEq(s, t) == Chars(s, 1, StrLen(s)) = Chars(t, 1, StrLen(t))

\* Number of "0" characters s starts with.
LeadingZeros(s) ==
    LET other == {i \in DOMAIN s : s[i][1] # "0" /\ s[i][2] > 0}
    IN  IF other = {} THEN StrLen(s)
        ELSE Sum([j \in 1..(Min(other) - 1) |-> s[j][2]])

IsDigitRun(run) == run[1] \in Range(DigitChar)
\* str.isdigit(): non-empty and digits only.
isdigit(s) == StrLen(s) > 0 /\ \A i \in DOMAIN s : IsDigitRun(s[i])

\* The digits s[from - 1 : to] of a digit string, most significant first.
DigitSeq(s, from, to) ==
    LET cs == Chars(s, from, to) IN [i \in DOMAIN cs |-> DigitVal(cs[i])]
\* The int a sequence of digits denotes.
DigitsToInt(ds) ==
    LET n == Len(ds)
        D(i) == IF i >= 1 THEN ds[i] ELSE 0
    IN  Trim([j \in 1..((n + 3) \div 4) |->
                 D(n - 4 * j + 1) * 1000 + D(n - 4 * j + 2) * 100
                 + D(n - 4 * j + 3) * 10 + D(n - 4 * j + 4)])

\* The interpreter refuses to convert a digit string of more than 4300 digits
\* to an int (sys.int_info.default_max_str_digits, Python >= 3.11): ValueError.
MaxStrDigits == 4300

\* int(s) for a string of digits: Some(value), or None for ValueError (the
\* empty string, or more than MaxStrDigits digits).
ValueError == None
int(s) ==
    IF ~isdigit(s) \/ StrLen(s) > MaxStrDigits THEN ValueError
    ELSE Some(DigitsToInt(DigitSeq(s, 1, StrLen(s))))

\* Index of the first "." run of s, or 0.
DotAt(s) == IF \E i \in DOMAIN s : s[i][1] = "."
            THEN Min({i \in DOMAIN s : s[i][1] = "."}) ELSE 0

\* Whether the digit string fp has a non-zero digit after its first k digits.
NonZeroAfter(fp, k) ==
    LET ends == Ends(fp)
    IN  \E i \in DOMAIN fp : fp[i][1] # "0" /\ fp[i][2] > 0 /\ ends[i] > k
\* The float nearest to n / 10^k, or to a little more than that when sticky:
\* n * 2^t \div 10^k has more than 53 bits.
ScaledToFloat(n, k, sticky) ==
    LET t == Max({0, 57 + (k * 2322) \div 1000 - ((DecLen(n) - 1) * 3321) \div 1000})
    IN  IF n = <<>> THEN Zero
        ELSE RoundQuotient(IntDivPow5(IntMul(n, Pow2(t)), k), (-t) - k, sticky)
\* The float nearest to the decimal ip.fp.  No float lies at or above 10^309,
\* a value below 10^-400 is nearer to 0.0 than to any other float, and the
\* digits after the 800th significant one matter only by being zero or not.
DecimalToFloat(ip, fp) ==
    LET zi == LeadingZeros(ip)
        ni == StrLen(ip) - LeadingZeros(ip)
        z == IF StrLen(ip) = LeadingZeros(ip) THEN LeadingZeros(fp) ELSE 0
        k == z + Min({StrLen(fp) - z, Max({0, 800 - ni})})
    IN  IF ni > 309 THEN Inf
        ELSE IF z > 400 THEN Zero
        ELSE ScaledToFloat(DigitsToInt(DigitSeq(ip, zi + 1, zi + ni)
                                       \o DigitSeq(fp, z + 1, k)),
                           k, NonZeroAfter(fp, k))

\* float(s) for digits with an optional fraction: Some(float), or None for
\* ValueError (no digit at all).
float(s) ==
    LET dot == DotAt(s)
        ip == IF dot = 0 THEN s ELSE SubSeq(s, 1, dot - 1)
        fp == IF dot = 0 THEN <<>> ELSE SubSeq(s, dot + 1, Len(s))
    IN  IF ~isdigit(ip \o fp) THEN ValueError
        ELSE Some(DecimalToFloat(ip, fp))

(***************************************************************************)
(* The text: what each pattern list of extract_lease_data_from_text yields *)
(* on text_clean.                                                          *)
(*   kind     "empty", "whitespace" or "content"                           *)
(*   rent     per rent pattern, None or Some(capture of its first match)   *)
(*   term     captures of every match of every term pattern, in order      *)
(*   renewal  None or Some(<<capture 1, capture 2>>) of renewal_pattern    *)
(*   esc      per escalator pattern, None or Some(capture)                 *)
(*   acres    per acreage pattern, None or Some(capture)                   *)
(*   rates    re.findall of the per-acre rate pattern                      *)
(***************************************************************************)
NumRentPatterns == 15
NumEscalatorPatterns == 4
NumAcresPatterns == 3

NoMatches(n) == [i \in 1..n |-> None]

\* Lines 102-106, keyed by the characters of the word.
number_words ==
    (<<"o", "n", "e">> :> 1) @@ (<<"t", "w", "o">> :> 2) @@
    (<<"t", "h", "r", "e", "e">> :> 3) @@ (<<"f", "o", "u", "r">> :> 4) @@
    (<<"f", "i", "v", "e">> :> 5) @@ (<<"s", "i", "x">> :> 6) @@
    (<<"s", "e", "v", "e", "n">> :> 7) @@ (<<"e", "i", "g", "h", "t">> :> 8) @@
    (<<"n", "i", "n", "e">> :> 9) @@ (<<"t", "e", "n">> :> 10) @@
    (<<"e", "l", "e", "v", "e", "n">> :> 11) @@
    (<<"t", "w", "e", "l", "v", "e">> :> 12) @@
    (<<"t", "h", "i", "r", "t", "e", "e", "n">> :> 13) @@
    (<<"f", "o", "u", "r", "t", "e", "e", "n">> :> 14) @@
    (<<"f", "i", "f", "t", "e", "e", "n">> :> 15) @@
    (<<"s", "i", "x", "t", "e", "e", "n">> :> 16) @@
    (<<"s", "e", "v", "e", "n", "t", "e", "e", "n">> :> 17) @@
    (<<"e", "i", "g", "h", "t", "e", "e", "n">> :> 18) @@
    (<<"n", "i", "n", "e", "t", "e", "e", "n">> :> 19) @@
    (<<"t", "w", "e", "n", "t", "y">> :> 20) @@
    (<<"t", "h", "i", "r", "t", "y">> :> 30) @@
    (<<"f", "o", "r", "t", "y">> :> 40) @@ (<<"f", "i", "f", "t", "y">> :> 50) @@
    (<<"s", "i", "x", "t", "y">> :> 60)
\* number_words.get(val.lower(), None)
number_words_get(val) ==
    LET key == Chars(lower(val), 1, StrLen(val))
    IN  IF key \in DOMAIN number_words THEN Some(IntOf(number_words[key]))
        ELSE None

\* text.strip() is empty.
IsBlank(t) == t.kind \in {"empty", "whitespace"}

(***************************************************************************)
(* Rent pattern pass, lines 89-99.                                         *)
(***************************************************************************)
\* Line 95: the accepted rent range.
MinRent == 1000
MaxRent == 10000000
InRentRange(rent_amount) ==
    IntLeq(IntOf(MinRent), rent_amount) /\ IntLeq(rent_amount, IntOf(MaxRent))

\* Mutant: the loop without its break, the last qualifying pattern wins.
RECURSIVE rent_pass_no_break(_, _)
rent_pass_no_break(matches, i) ==
    IF i > Len(matches) THEN None
    ELSE LET later == rent_pass_no_break(matches, i + 1)
             rent_amount == IF IsNone(matches[i]) THEN ValueError
                            ELSE int(StripCommas(Val(matches[i])))
         IN  IF ~IsNone(later) THEN later
             ELSE IF rent_amount # ValueError /\ InRentRange(Val(rent_amount))
                  THEN rent_amount ELSE None

\* The loop from pattern i on: the annual_rent it leaves.
RECURSIVE rent_pass(_, _)
rent_pass(matches, i) ==
    IF i > Len(matches) THEN None
    ELSE IF IsNone(matches[i]) THEN rent_pass(matches, i + 1)
    ELSE LET rent_amount == int(StripCommas(Val(matches[i])))
         IN  IF rent_amount = ValueError THEN rent_pass(matches, i + 1)
             ELSE IF InRentRange(Val(rent_amount)) THEN rent_amount
             ELSE rent_pass(matches, i + 1)

(***************************************************************************)
(* Term candidates, lines 126-137.  int(val) is outside any try block.     *)
(***************************************************************************)
Raised(c) == [raised |-> TRUE, value |-> c]
Returned(c) == [raised |-> FALSE, value |-> c]

\* years_val of one capture: None stands for the uncaught ValueError of int().
years_val(val) == IF isdigit(val) THEN int(val) ELSE number_words_get(val)

\* "if years_val:" is false for None and for 0.
RECURSIVE collect_terms(_, _)
collect_terms(captures, acc) ==
    IF captures = <<>> THEN Returned(acc)
    ELSE LET val == Head(captures)
             y == years_val(val)
         IN  IF isdigit(val) /\ y = ValueError THEN Raised(acc)
             ELSE IF ~IsNone(y) /\ Val(y) # IntOf(0)
                  THEN collect_terms(Tail(captures), Append(acc, Val(y)))
                  ELSE collect_terms(Tail(captures), acc)

(***************************************************************************)
(* Renewal clause, lines 139-153.                                          *)
(***************************************************************************)
\* Mutant: the initial term taken as the smallest candidate.
initial_term_min(candidates, renew_years) ==
    IF candidates # <<>> THEN IntMin(Range(candidates)) ELSE renew_years

initial_term(candidates, renew_years) ==
    IF candidates # <<>> THEN IntMax(Range(candidates)) ELSE renew_years

\* Mutant: the renewal years alone, without the initial term.
renewal_total_no_initial(candidates, renew_count, renew_years) ==
    IntMul(renew_count, renew_years)

renewal_total(candidates, renew_count, renew_years) ==
    IntAdd(initial_term(candidates, renew_years), IntMul(renew_count, renew_years))

\* total_term_from_renewal: None when there is no clause or a number of the
\* clause does not convert (except ValueError: pass).
renewal(candidates, renewal_match) ==
    IF IsNone(renewal_match) THEN None
    ELSE LET renew_count == int(Val(renewal_match)[1])
             renew_years == int(Val(renewal_match)[2])
         IN  IF renew_count = ValueError \/ renew_years = ValueError THEN None
             ELSE Some(renewal_total(candidates, Val(renew_count), Val(renew_years)))

(***************************************************************************)
(* Term resolution, lines 155-162, and the review flag, lines 164-168.     *)
(***************************************************************************)
MinReasonableTerm == 15
MaxReasonableTerm == 35
MaxFallbackTerm == 50
ReviewBelow == 10

IsReasonable(t) ==
    IntLeq(IntOf(MinReasonableTerm), t) /\ IntLeq(t, IntOf(MaxReasonableTerm))
reasonable_terms(candidates) == SelectSeq(candidates, IsReasonable)

\* Mutant: the fallback accepted without the upper limit.
resolve_term_no_cap(candidates) ==
    IF candidates = <<>> THEN None
    ELSE IF reasonable_terms(candidates) # <<>>
         THEN Some(IntMax(Range(reasonable_terms(candidates))))
         ELSE Some(IntMin(Range(candidates)))

\* Mutant: the smallest of the reasonable terms.
resolve_term_min_reasonable(candidates) ==
    IF candidates = <<>> THEN None
    ELSE IF reasonable_terms(candidates) # <<>>
         THEN Some(IntMin(Range(reasonable_terms(candidates))))
         ELSE IF IntLeq(IntMin(Range(candidates)), IntOf(MaxFallbackTerm))
              THEN Some(IntMin(Range(candidates))) ELSE None

resolve_term(candidates) ==
    IF candidates = <<>> THEN None
    ELSE IF reasonable_terms(candidates) # <<>>
         THEN Some(IntMax(Range(reasonable_terms(candidates))))
         ELSE IF IntLeq(IntMin(Range(candidates)), IntOf(MaxFallbackTerm))
              THEN Some(IntMin(Range(candidates))) ELSE None

\* lease_data.get("term_years") and lease_data["term_years"] < 10:
\* None and 0 are both false.
needs_review(term_years) ==
    /\ ~IsNone(term_years)
    /\ Val(term_years) # IntOf(0)
    /\ IntLess(Val(term_years), IntOf(ReviewBelow))

(***************************************************************************)
(* Escalator, lines 178-188.                                               *)
(***************************************************************************)
MinEscalatorPct == RoundToFloat(IntOf(1), -1, FALSE)      \* 0.5
MaxEscalatorPct == FloatOf(5)                             \* 5.0
DefaultEscalator == Zero                                  \* 0.0

\* Mutant: no upper limit on the percentage.
InEscalatorRange_no_upper(p) ==
    p.kind = "fin" /\ FloatLeq(MinEscalatorPct, p)

\* 0.5 <= escalator_pct <= 5.0
InEscalatorRange(p) == FloatLeq(MinEscalatorPct, p) /\ FloatLeq(p, MaxEscalatorPct)

\* escalator_pct / 100.0
PctToRate(p) == FloatDiv100(p)

\* Lines 182-187 for one match: the rate of an escalator_pct in range, and
\* otherwise (ValueError, or out of range) what the later patterns give.
escalator_of(escalator_pct, later) ==
    IF escalator_pct = ValueError THEN later
    ELSE IF InEscalatorRange(Val(escalator_pct)) THEN PctToRate(Val(escalator_pct))
    ELSE later

RECURSIVE escalator_pass(_, _)
escalator_pass(matches, i) ==
    IF i > Len(matches) THEN DefaultEscalator
    ELSE IF IsNone(matches[i]) THEN escalator_pass(matches, i + 1)
    ELSE escalator_of(float(Val(matches[i])), escalator_pass(matches, i + 1))

(***************************************************************************)
(* Acreage, lines 197-204.                                                 *)
(***************************************************************************)
\* Lines 200-204 for one match: the converted acreage, and on ValueError
\* what the later patterns give.
acres_of(a, later) == IF a = ValueError THEN later ELSE a

RECURSIVE acres_pass(_, _)
acres_pass(matches, i) ==
    IF i > Len(matches) THEN None
    ELSE IF IsNone(matches[i]) THEN acres_pass(matches, i + 1)
    ELSE acres_of(float(StripCommas(Val(matches[i]))), acres_pass(matches, i + 1))

(***************************************************************************)
(* Per-acre override, lines 207-219.                                       *)
(***************************************************************************)
OverrideFactor == 3

\* [float(r.replace(',', '')) for r in per_acre_rates]: None for ValueError.
\* The list of a converted rate f and the converted later rates.
rates_cons(f, rest) ==
    IF f = ValueError \/ rest = ValueError THEN ValueError
    ELSE Some(<<Val(f)>> \o Val(rest))

RECURSIVE rates_float(_)
rates_float(rates) ==
    IF rates = <<>> THEN Some(<<>>)
    ELSE rates_cons(float(StripCommas(Head(rates))), rates_float(Tail(rates)))

RECURSIVE max_float(_)
max_float(fs) == IF Len(fs) = 1 THEN fs[1] ELSE FloatMax(fs[1], max_float(Tail(fs)))

\* Line 216: annual_rent is None, or annual_rent > computed_rent * 3 (ints),
\* or annual_rent < computed_rent / 3 (an int against a float).
ShouldOverride(annual_rent, computed_rent) ==
    \/ IsNone(annual_rent)
    \/ IntLess(IntMul(computed_rent, IntOf(OverrideFactor)), Val(annual_rent))
    \/ IntLessFloat(Val(annual_rent), IntTrueDiv(computed_rent, OverrideFactor))

\* The guard of line 208: both operands by truthiness.
OverrideApplies(rates, acres) ==
    rates # <<>> /\ ~IsNone(acres) /\ FloatTruthy(Val(acres))

\* Lines 216-217 for the computed rent.
override_rent(annual_rent, computed_rent) ==
    IF ShouldOverride(annual_rent, computed_rent)
    THEN Returned(Some(computed_rent))
    ELSE Returned(annual_rent)

\* Line 213 for the product max(rates) * acres: int(infinity) is the
\* uncaught OverflowError, int(nan) the ValueError caught at line 218.
override_product(annual_rent, product) ==
    IF product.kind = "inf" THEN Raised(annual_rent)
    ELSE IF product.kind = "nan" THEN Returned(annual_rent)
    ELSE override_rent(annual_rent, Trunc(product))

\* Lines 210-217 for the converted rates fs.
override_rates(annual_rent, acres, fs) ==
    IF fs = ValueError THEN Returned(annual_rent)
    ELSE override_product(annual_rent, FloatMul(max_float(Val(fs)), Val(acres)))

\* The annual_rent after lines 207-219, or the exception that leaves them.
per_acre_override(annual_rent, acres, rates) ==
    IF ~OverrideApplies(rates, acres) THEN Returned(annual_rent)
    ELSE override_rates(annual_rent, acres, rates_float(rates))

(***************************************************************************)
(* State after construction of the record, lines 55-65.                    *)
(***************************************************************************)
InitialLeaseData ==
    [annual_rent |-> None, term_years |-> None, escalator |-> DefaultEscalator,
     acres |-> None, needs_review |-> None]

\* No file: a direct call of extract_lease_data_from_text.
NoFile == [suffix |-> <<>>, readable |-> FALSE, json |-> None, extraction |-> "ok"]

(***************************************************************************)
(* process_document, lines 271-299: up to the call of the extraction.      *)
(* file.json is what json.load returns on a readable file: None for the    *)
(* JSON value null, Some(record) for a stored record.  file.extraction is  *)
(* what extract_text_from_pdf / extract_text_from_docx (lines 17-49) do on *)
(* the file: "ok" when they return a text (the empty text when the library *)
(* is missing), "raises" when the library raises on the file, which only   *)
(* an ImportError handler surrounds.                                       *)
(***************************************************************************)
JsonSuffix == Str(<<".", "j", "s", "o", "n">>)
PdfSuffix == Str(<<".", "p", "d", "f">>)
DocxSuffix == Str(<<".", "d", "o", "c", "x">>)

ProcessDocument ==
    /\ pc = "process_document"
    /\ LET file_ext == lower(file.suffix)
       IN  IF StrEq(file_ext, JsonSuffix)
           THEN /\ result' = (IF file.readable THEN file.json ELSE None)
                /\ pc' = "done"
           ELSE IF ~(StrEq(file_ext, PdfSuffix) \/ StrEq(file_ext, DocxSuffix))
                THEN /\ result' = None
                     /\ pc' = "done"
                ELSE IF file.extraction = "raises"
                     THEN /\ result' = result
                          /\ pc' = "raised"
                     ELSE IF IsBlank(text)
                          THEN /\ result' = None
                               /\ pc' = "done"
                          ELSE /\ result' = result
                               /\ pc' = "rent"
    /\ UNCHANGED <<caller, file, text, lease_data, term_candidates,
                   total_term_from_renewal>>

(***************************************************************************)
(* extract_lease_data_from_text, one action per pass.                      *)
(***************************************************************************)
RentPass ==                                   \* lines 71-99
    /\ pc = "rent"
    /\ lease_data' = [lease_data EXCEPT !.annual_rent = rent_pass(text.rent, 1)]
    /\ pc' = "term"
    /\ UNCHANGED <<caller, file, text, term_candidates,
                   total_term_from_renewal, result>>

TermCollect ==                                \* lines 126-137
    /\ pc = "term"
    /\ \E r \in {collect_terms(text.term, <<>>)} :
          /\ term_candidates' = r.value
          /\ pc' = IF r.raised THEN "raised" ELSE "renewal"
    /\ UNCHANGED <<caller, file, text, lease_data, total_term_from_renewal,
                   result>>

Renewal ==                                    \* lines 139-153
    /\ pc = "renewal"
    /\ total_term_from_renewal' = renewal(term_candidates, text.renewal)
    /\ term_candidates' =
          IF IsNone(total_term_from_renewal') THEN term_candidates
          ELSE Append(term_candidates, Val(total_term_from_renewal'))
    /\ pc' = "resolve"
    /\ UNCHANGED <<caller, file, text, lease_data, result>>

ResolveTerm ==                                \* lines 155-162
    /\ pc = "resolve"
    /\ lease_data' = [lease_data EXCEPT !.term_years = resolve_term(term_candidates)]
    /\ pc' = "review"
    /\ UNCHANGED <<caller, file, text, term_candidates,
                   total_term_from_renewal, result>>

ReviewFlag ==                                 \* lines 164-168
    /\ pc = "review"
    /\ lease_data' = [lease_data EXCEPT
                        !.needs_review = Some(needs_review(lease_data.term_years))]
    /\ pc' = "escalator"
    /\ UNCHANGED <<caller, file, text, term_candidates,
                   total_term_from_renewal, result>>

EscalatorPass ==                              \* lines 170-188
    /\ pc = "escalator"
    /\ lease_data' = [lease_data EXCEPT !.escalator = escalator_pass(text.esc, 1)]
    /\ pc' = "acres"
    /\ UNCHANGED <<caller, file, text, term_candidates,
                   total_term_from_renewal, result>>

AcresPass ==                                  \* lines 190-204
    /\ pc = "acres"
    /\ lease_data' = [lease_data EXCEPT !.acres = acres_pass(text.acres, 1)]
    /\ pc' = "per_acre"
    /\ UNCHANGED <<caller, file, text, term_candidates,
                   total_term_from_renewal, result>>

PerAcreOverride ==                            \* lines 206-219
    /\ pc = "per_acre"
    /\ \E r \in {per_acre_override(lease_data.annual_rent, lease_data.acres,
                                    text.rates)} :
          /\ lease_data' = [lease_data EXCEPT !.annual_rent = r.value]
          /\ pc' = IF r.raised THEN "raised" ELSE "return"
    /\ UNCHANGED <<caller, file, text, term_candidates,
                   total_term_from_renewal, result>>

\* Line 269; for a direct call the record is the result.
Return ==
    /\ pc = "return"
    /\ IF caller = "extract"
       THEN /\ result' = Some(lease_data)
            /\ pc' = "done"
       ELSE /\ result' = result
            /\ pc' = "validate"
    /\ UNCHANGED <<caller, file, text, lease_data, term_candidates,
                   total_term_from_renewal>>

\* process_document, lines 301-306: the warning changes nothing.
Validate ==
    /\ pc = "validate"
    /\ result' = Some(lease_data)
    /\ pc' = "done"
    /\ UNCHANGED <<caller, file, text, lease_data, term_candidates,
                   total_term_from_renewal>>

extract_lease_data_from_text ==
    \/ RentPass \/ TermCollect \/ Renewal \/ ResolveTerm \/ ReviewFlag
    \/ EscalatorPass \/ AcresPass \/ PerAcreOverride \/ Return

process_document == ProcessDocument \/ extract_lease_data_from_text \/ Validate

(***************************************************************************)
(* Inputs.  The captures are drawn from small sets around the thresholds   *)
(* of the code; LongDigits is a digit string past both conversion limits.  *)
(***************************************************************************)
LongDigits == Rep("9", MaxStrDigits + 1)
OnlyComma == Str(<<",">>)

Text(kind, rent, term, ren, esc, acres, rates) ==
    [kind |-> kind, rent |-> rent, term |-> term, renewal |-> ren,
     esc |-> esc, acres |-> acres, rates |-> rates]

NoRent == NoMatches(NumRentPatterns)
NoEsc == NoMatches(NumEscalatorPatterns)
NoAcres == NoMatches(NumAcresPatterns)
EmptyText == Text("empty", NoRent, <<>>, None, NoEsc, NoAcres, <<>>)
WhitespaceText == [EmptyText EXCEPT !.kind = "whitespace"]

\* Per-pattern matches over n patterns, at most k of them matching.
SparseMatches(n, k, captures) ==
    UNION {{[i \in 1..n |-> IF i \in P THEN Some(f[i]) ELSE None] :
               f \in [P -> captures]} :
           P \in {Q \in SUBSET (1..n) : Cardinality(Q) <= k}}

\* Sequences over S of length at most k.
SeqsUpTo(S, k) == UNION {[1..n -> S] : n \in 0..k}

\* What the pattern lists force on any text: a match of one pattern contains
\* a match of another (rent 1 => 2 and 5, rent 6 => 5, acres 3 => 1; the
\* renewal clause holds a match of term pattern 2 capturing its years; with a
\* per-acre rate and a "<n> acres", "acre" is followed by a number), the
\* number-word patterns come last, and a blank text matches nothing.
Matched(m, i) == ~IsNone(m[i])
Realizable(t) ==
    /\ Matched(t.rent, 1) => Matched(t.rent, 2) /\ Matched(t.rent, 5)
    /\ Matched(t.rent, 6) => Matched(t.rent, 5)
    /\ Matched(t.acres, 3) => Matched(t.acres, 1)
    /\ (t.rates # <<>> /\ Matched(t.acres, 1)) => Matched(t.acres, 2)
    /\ ~IsNone(t.renewal) => Val(t.renewal)[2] \in Range(t.term)
    /\ \A i, j \in DOMAIN t.term :
          (i < j /\ ~isdigit(t.term[i])) => ~isdigit(t.term[j])
    /\ IsBlank(t) => t = [EmptyText EXCEPT !.kind = t.kind]

\* Rent pass: separators only, below / at the lower limit, at / above the
\* upper limit, too long to convert.
MaxRentMatches == 2
RentCaptures ==
    {OnlyComma, Digits(999), Str(<<"1", ",", "0", "0", "0">>),
     Str(<<"1", "0", ",", "0", "0", "0", ",", "0", "0", "0">>),
     Digits(10000001), LongDigits}
\* The text on which the rent patterns of P match, with captures f.
RentText(P, f) ==
    [EmptyText EXCEPT !.kind = "content",
                      !.rent = [i \in 1..NumRentPatterns |->
                                   IF i \in P THEN Some(f[i]) ELSE None]]

\* Term pass and renewal clause.
MaxTermMatches == 2
Twenty == Str(<<"t", "w", "e", "n", "t", "y">>)
TermCaptures ==
    {Digits(0), Digits(5), Digits(10), Digits(15), Digits(35), Digits(36),
     Digits(50), Digits(51), LongDigits, Twenty}
RenewalCounts == {Digits(0), Digits(1), Digits(2), LongDigits}
RenewalYears == {Digits(0), Digits(5), Digits(10), LongDigits}
RenewalMatches ==
    {None} \cup {Some(<<n, m>>) : n \in RenewalCounts, m \in RenewalYears}
TermTexts ==
    {t \in {[EmptyText EXCEPT !.kind = "content", !.term = c, !.renewal = r] :
               c \in SeqsUpTo(TermCaptures, MaxTermMatches), r \in RenewalMatches} :
        Realizable(t)}

\* Escalator pass: percentages around 0.5 and 5.0, one just below 0.5 that
\* converts to the double 0.5, one whose hundredth the double division
\* rounds, one with leading zeros past the length at which a number would
\* be infinite, one that converts to infinity.
JustBelowHalf == Str(<<"0", ".", "4">>) \o Rep("9", 19)
ZerosThenTwo == Rep("0", 320) \o Str(<<"2">>)
EscalatorCaptures ==
    {Str(<<"0", ".", "4", "9">>), JustBelowHalf, Str(<<"0", ".", "5">>),
     Str(<<"0", ".", "7">>), Str(<<"5">>), Str(<<"5", ".", "0", "1">>),
     ZerosThenTwo, LongDigits}
EscalatorTexts ==
    {[EmptyText EXCEPT !.kind = "content", !.esc = m] :
        m \in [1..NumEscalatorPatterns -> {None} \cup {Some(c) : c \in EscalatorCaptures}]}

\* Per-acre override: a rent accepted by the "sum of $..." pattern, acreages
\* and rates whose products put the accepted rents on both sides of the two
\* factor-of-three thresholds (15 x 640 = 9600), and a product the double
\* arithmetic rounds below the decimal one (0.57 x 100).
SumOfPattern == 8
MaxRates == 2
MaxAcresMatches == 2
OverrideRents ==
    {Digits(1001), Digits(3199), Digits(3200), Str(<<"2", "8", ",", "8", "0", "0">>),
     Digits(28801)}
AcresCaptures == {Digits(0), Digits(640), Digits(100), OnlyComma, LongDigits}
RateCaptures == {Digits(15), Str(<<"0", ".", "5", "7">>), OnlyComma, LongDigits}
PerAcreTexts ==
    {t \in {[EmptyText EXCEPT !.kind = "content", !.rent = m, !.acres = a, !.rates = rs] :
               m \in {NoRent} \cup {[NoRent EXCEPT ![SumOfPattern] = Some(c)] :
                                       c \in OverrideRents},
               a \in SparseMatches(NumAcresPatterns, MaxAcresMatches, AcresCaptures),
               rs \in SeqsUpTo(RateCaptures, MaxRates)} :
        Realizable(t)}

\* Documents for process_document.
StoredRecord ==
    [InitialLeaseData EXCEPT !.annual_rent = Some(IntOf(50000)),
                             !.term_years = Some(IntOf(25)),
                             !.needs_review = Some(FALSE)]
JsonSuffixes ==
    {JsonSuffix, Str(<<".", "J", "S", "O", "N">>), Str(<<".", "J", "s", "o", "n">>)}
DocumentSuffixes ==
    {PdfSuffix, Str(<<".", "P", "D", "F">>), Str(<<".", "P", "d", "f">>),
     DocxSuffix, Str(<<".", "D", "O", "C", "X">>), Str(<<".", "D", "o", "c", "x">>)}
OtherSuffixes == {Str(<<".", "t", "x", "t">>), Str(<<".", "T", "X", "T">>), <<>>}
\* A .json file: unreadable, or holding null or a record.
JsonFiles ==
    {[suffix |-> sfx, readable |-> r, json |-> j, extraction |-> "ok"] :
        sfx \in JsonSuffixes, r \in BOOLEAN, j \in {None, Some(StoredRecord)}}
TextFiles ==
    {[suffix |-> sfx, readable |-> TRUE, json |-> None, extraction |-> x] :
        sfx \in DocumentSuffixes \cup OtherSuffixes, x \in {"ok", "raises"}}
DocumentTexts ==
    {EmptyText, WhitespaceText,
     [EmptyText EXCEPT !.kind = "content"],
     \* "Annual Rental Payment: $50,000 ... for 25 years"
     [EmptyText EXCEPT !.kind = "content",
        !.rent = [NoRent EXCEPT ![1] = Some(Str(<<"5", "0", ",", "0", "0", "0">>)),
                                ![2] = Some(Str(<<"5", "0", ",", "0", "0", "0">>)),
                                ![5] = Some(Str(<<"5", "0", ",", "0", "0", "0">>))],
        !.term = <<Digits(25)>>],
     \* "for 5 years"
     [EmptyText EXCEPT !.kind = "content", !.term = <<Digits(5)>>],
     \* "sum of $5000"
     [EmptyText EXCEPT !.kind = "content",
        !.rent = [NoRent EXCEPT ![SumOfPattern] = Some(Digits(5000))]],
     \* "for 999...9 years"
     [EmptyText EXCEPT !.kind = "content", !.term = <<LongDigits>>],
     \* "640 acres ... $999...9 per utilized acre"
     [EmptyText EXCEPT !.kind = "content",
        !.acres = [NoAcres EXCEPT ![1] = Some(Digits(640)), ![2] = Some(LongDigits)],
        !.rates = <<LongDigits>>],
     \* "$15 per utilized acre ... 640 acres"
     [EmptyText EXCEPT !.kind = "content",
        !.acres = [NoAcres EXCEPT ![1] = Some(Digits(640)), ![2] = Some(Digits(640))],
        !.rates = <<Digits(15)>>]}

InitCall(texts) ==
    /\ caller = "extract"
    /\ file = NoFile
    /\ text \in texts
    /\ pc = "rent"
    /\ lease_data = InitialLeaseData
    /\ term_candidates = <<>>
    /\ total_term_from_renewal = None
    /\ result = None

InitRent ==
    \E P \in {Q \in SUBSET (1..NumRentPatterns) : Cardinality(Q) <= MaxRentMatches} :
        \E f \in [P -> RentCaptures] :
            /\ Realizable(RentText(P, f))
            /\ InitCall({RentText(P, f)})
InitTerm == InitCall(TermTexts)
InitEscalator == InitCall(EscalatorTexts)
InitPerAcre == InitCall(PerAcreTexts)

\* A .json file is never read as text; any other file yields some text, or
\* none when its extraction raises.
Init ==
    /\ caller = "process_document"
    /\ \/ file \in JsonFiles /\ text = EmptyText
       \/ file \in TextFiles /\ file.extraction = "ok" /\ text \in DocumentTexts
       \/ file \in TextFiles /\ file.extraction = "raises" /\ text = EmptyText
    /\ pc = "process_document"
    /\ lease_data = InitialLeaseData
    /\ term_candidates = <<>>
    /\ total_term_from_renewal = None
    /\ result = None

Next == process_document

Spec == Init /\ [][Next]_vars
SpecRent == InitRent /\ [][extract_lease_data_from_text]_vars
SpecTerm == InitTerm /\ [][extract_lease_data_from_text]_vars
SpecEscalator == InitEscalator /\ [][extract_lease_data_from_text]_vars
SpecPerAcre == InitPerAcre /\ [][extract_lease_data_from_text]_vars

(***************************************************************************)
(* Properties                                                              *)
(***************************************************************************)
Terminated == pc \in {"done", "raised"}
term_years == lease_data.term_years
annual_rent == lease_data.annual_rent
Ten == IntOf(10)
Fifteen == IntOf(15)
Thirty == IntOf(30)
ThirtyFive == IntOf(35)
Fifty == IntOf(50)
InPlausibleRange(t) == IntLeq(Fifteen, t) /\ IntLeq(t, ThirtyFive)

\* C1: extract_lease_data_from_text is total: on every text it reaches its
\* return statement and never raises; every parse failure is caught where it
\* occurs.
C1_NeverRaises == pc # "raised"

\* C2: in every returned record needs_review is true if and only if
\* term_years is non-null and less than 10, for every combination of term
\* candidates and renewal clause.
C2_NeedsReviewIff ==
    pc = "done" =>
        (Val(lease_data.needs_review)
            <=> (~IsNone(term_years) /\ IntLess(Val(term_years), Ten)))

\* C3: term acceptance invariant: in every returned record a non-null
\* term_years is in [15,35], or is <= 50 and then no candidate (pattern match
\* or renewal total) was in [15,35].
C3_TermAcceptance ==
    (pc = "done" /\ ~IsNone(term_years)) =>
        \/ InPlausibleRange(Val(term_years))
        \/ /\ IntLeq(Val(term_years), Fifty)
           /\ \A i \in DOMAIN term_candidates : ~InPlausibleRange(term_candidates[i])

\* A record returned with a term outside [15,35], accepted by the fallback
\* among several candidates.
C3_Witness ==
    /\ pc = "done"
    /\ ~IsNone(term_years)
    /\ IntLess(ThirtyFive, Val(term_years))
    /\ Len(term_candidates) >= 2

\* C4: per-acre override: whenever at least one per-acre rate was matched and
\* acres is non-null, computed = max(rates) x acres truncated, and the
\* returned annual_rent is computed if no rent was accepted or the accepted
\* rent is more than 3 x computed or less than computed / 3, and the accepted
\* rent otherwise.  Stated for rates and acreage that convert and whose
\* product, in double arithmetic, is finite.
MaxRate == max_float(Val(rates_float(text.rates)))
C4_PerAcreOverride ==
    [][(/\ pc = "per_acre"
        /\ text.rates # <<>>
        /\ ~IsNone(lease_data.acres)
        /\ rates_float(text.rates) # ValueError
        /\ FloatMul(MaxRate, Val(lease_data.acres)).kind = "fin")
       => LET computed == Trunc(FloatMul(MaxRate, Val(lease_data.acres)))
          IN  lease_data'.annual_rent =
                 IF \/ IsNone(annual_rent)
                    \/ IntLess(IntMul(IntOf(3), computed), Val(annual_rent))
                    \/ IntLess(IntMul(IntOf(3), Val(annual_rent)), computed)
                 THEN Some(computed) ELSE annual_rent]_vars

\* The escalator is the double nearest to p / 100: a normalized e with
\* |100 e - p| at most 50 units in the last place of e.
EscalatorPct(i) == Val(float(Val(text.esc[i])))
IsPctOver100(e, p) ==
    /\ e.kind = "fin" /\ p.kind = "fin"
    /\ IntLeq(Pow2(52), e.m)
    /\ LET low == Min({e.e, p.e})
           scaled == IntMul(IntMul(IntOf(100), e.m), Pow2(e.e - low))
           exact == IntMul(p.m, Pow2(p.e - low))
           half == IntMul(IntOf(50), Pow2(e.e - low))
       IN  /\ IntLeq(scaled, IntAdd(exact, half))
           /\ IntLeq(exact, IntAdd(scaled, half))

\* 0.5 <= d <= 5.0 for the decimal d a capture "<digits>[.<digits>]" denotes:
\* with k fraction digits and n the int of all its digits, d = n / 10^k.  A
\* capture with two or more significant integer digits is at least 10.
DecimalInRange(s) ==
    LET dot == DotAt(s)
        ip == IF dot = 0 THEN s ELSE SubSeq(s, 1, dot - 1)
        fp == IF dot = 0 THEN <<>> ELSE SubSeq(s, dot + 1, Len(s))
        k == StrLen(fp)
        n == DigitsToInt(DigitSeq(ip \o fp, 1, StrLen(ip) + k))
        unit == ShiftLimbs(IntOf(SmallPow(10, k % 4)), k \div 4)
    IN  /\ StrLen(ip) - LeadingZeros(ip) <= 1
        /\ IntLeq(unit, IntMul(IntOf(2), n))
        /\ IntLeq(n, IntMul(IntOf(5), unit))
CapturedInRange(i) == Matched(text.esc, i) /\ DecimalInRange(Val(text.esc[i]))
FirstCapturedInRange == Min({i \in DOMAIN text.esc : CapturedInRange(i)})

\* C5, as stated: in every returned record escalator is the default 0.0 or
\* p / 100 for a percentage p captured by an escalator pattern with
\* 0.5 <= p <= 5.0; a pattern whose captured percentage is out of range never
\* sets escalator, and the next pattern is then tried.
C5_CapturedPercentage ==
    pc = "done" =>
        IF \E i \in DOMAIN text.esc : CapturedInRange(i)
        THEN IsPctOver100(lease_data.escalator, EscalatorPct(FirstCapturedInRange))
        ELSE lease_data.escalator = Zero

\* C5, amended: in every returned record escalator is the default 0.0 or
\* p / 100.0, in double arithmetic, for the double p nearest to a percentage
\* captured by an escalator pattern, with 0.5 <= p <= 5.0; a pattern whose
\* percentage converts to a double out of range never sets escalator, and the
\* next pattern is then tried, so it is p / 100.0 of the first pattern whose
\* converted capture is in range.
EscalatorInRange(i) ==
    /\ Matched(text.esc, i)
    /\ FloatLeq(RoundToFloat(IntOf(1), -1, FALSE), EscalatorPct(i))
    /\ FloatLeq(EscalatorPct(i), FloatOf(5))
FirstInRange == Min({i \in DOMAIN text.esc : EscalatorInRange(i)})
C5_Escalator ==
    pc = "done" =>
        IF \E i \in DOMAIN text.esc : EscalatorInRange(i)
        THEN IsPctOver100(lease_data.escalator, EscalatorPct(FirstInRange))
        ELSE lease_data.escalator = Zero

\* The first pattern captured a percentage that converts out of range, a
\* later one a decimal below 0.5 that converts to 0.5, and that one set the
\* escalator.
C5_Witness ==
    /\ pc = "done"
    /\ Matched(text.esc, 1) /\ ~EscalatorInRange(1)
    /\ \E i \in 2..NumEscalatorPatterns :
          /\ EscalatorInRange(i) /\ ~CapturedInRange(i)
          /\ \A j \in 1..(i - 1) : ~EscalatorInRange(j)
    /\ lease_data.escalator # Zero

\* C6: process_document outcomes: for a .pdf or .docx document whose text is
\* not empty or whitespace-only it always returns the extracted record, also
\* when annual_rent or term_years is null; it returns None exactly when the
\* file type is unsupported, the text is empty or whitespace-only, or a .json
\* file cannot be read; a readable .json record is returned unchanged without
\* running the extraction.
IsJson == StrEq(lower(file.suffix), JsonSuffix)
IsDocument ==
    StrEq(lower(file.suffix), PdfSuffix) \/ StrEq(lower(file.suffix), DocxSuffix)
C6_ProcessDocument ==
    Terminated =>
        /\ (IsDocument /\ file.extraction = "ok" /\ text.kind = "content")
              => (pc = "done" /\ result = Some(lease_data))
        /\ pc = "done" =>
              (IsNone(result) <=>
                  \/ ~IsJson /\ ~IsDocument
                  \/ IsDocument /\ text.kind # "content"
                  \/ IsJson /\ ~file.readable)
        /\ (IsJson /\ file.readable)
              => (result = file.json /\ lease_data = InitialLeaseData)

\* C7: term resolution policy: term_years is the maximum of the candidates in
\* [15,35] if there is one; otherwise the minimum of all candidates if that
\* minimum is <= 50; otherwise, or when there is no candidate, null.
C7_TermResolution ==
    pc = "done" =>
        LET C == Range(term_candidates)
            R == {c \in C : InPlausibleRange(c)}
        IN  IF R # {}
            THEN /\ ~IsNone(term_years)
                 /\ Val(term_years) \in R
                 /\ \A c \in R : IntLeq(c, Val(term_years))
            ELSE IF C # {} /\ \E m \in C : IntLeq(m, Fifty)
                 THEN /\ ~IsNone(term_years)
                      /\ Val(term_years) \in C
                      /\ \A c \in C : IntLeq(Val(term_years), c)
                 ELSE IsNone(term_years)

\* Two different candidates in [15,35], the larger one accepted.
C7_Witness ==
    /\ pc = "done"
    /\ ~IsNone(term_years)
    /\ \E i \in DOMAIN term_candidates :
          /\ IntLeq(Fifteen, term_candidates[i])
          /\ IntLess(term_candidates[i], Val(term_years))

\* C8, as stated: whenever an "N renewal terms of M years" clause is found,
\* exactly one extra candidate is appended to the term candidates.
C8_AlwaysAppends ==
    [][(pc = "renewal" /\ ~IsNone(text.renewal))
       => Len(term_candidates') = Len(term_candidates) + 1]_vars

\* C8, amended: when the clause is found and both of its numbers convert to
\* integers, exactly one extra candidate total = initial_term + N x M is
\* appended, initial_term being the maximum of the candidates collected from
\* the term patterns, or M if none were collected; with candidates {10} and
\* 2 renewal terms of 10 years the candidates become {10, 30} and term_years
\* resolves to 30.
RenewCount == int(Val(text.renewal)[1])
RenewYears == int(Val(text.renewal)[2])
RenewalConverts ==
    ~IsNone(text.renewal) /\ ~IsNone(RenewCount) /\ ~IsNone(RenewYears)
C8_RenewalCandidate ==
    /\ [][(pc = "renewal" /\ RenewalConverts)
          => \E initial \in Range(term_candidates) \cup {Val(RenewYears)} :
                /\ IF term_candidates = <<>> THEN initial = Val(RenewYears)
                   ELSE /\ initial \in Range(term_candidates)
                        /\ \A c \in Range(term_candidates) : IntLeq(c, initial)
                /\ term_candidates' =
                      term_candidates
                         \o <<IntAdd(initial,
                                     IntMul(Val(RenewCount), Val(RenewYears)))>>]_vars
    /\ [](( /\ pc = "done"
            /\ RenewalConverts
            /\ Val(RenewCount) = IntOf(2) /\ Val(RenewYears) = Ten
            /\ Range(term_candidates) \ {Val(total_term_from_renewal)} = {Ten})
          => (Range(term_candidates) = {Ten, Thirty} /\ term_years = Some(Thirty)))

\* The scenario of the claim, returned: candidates 10 and 30, term 30.
C8_Witness ==
    /\ pc = "done"
    /\ RenewalConverts
    /\ Val(RenewCount) = IntOf(2) /\ Val(RenewYears) = Ten
    /\ Range(term_candidates) = {Ten, Thirty}
    /\ total_term_from_renewal = Some(Thirty)
    /\ term_years = Some(Thirty)

\* C9: rent pattern pass: the rent accepted before the per-acre override is
\* the integer captured by the earliest pattern, in list order, whose first
\* match converts (thousands separators stripped) to a value in
\* [1000, 10000000]; patterns that do not match, do not convert or are out of
\* range are skipped; if no pattern qualifies the rent stays null.
RentValue(i) == int(StripCommas(Val(text.rent[i])))
RentQualifies(i) ==
    /\ Matched(text.rent, i)
    /\ ~IsNone(RentValue(i))
    /\ IntLeq(IntOf(1000), Val(RentValue(i)))
    /\ IntLeq(Val(RentValue(i)), IntOf(10000000))
BeforeOverride == pc = "per_acre"
C9_RentPass ==
    BeforeOverride =>
        IF \E i \in DOMAIN text.rent : RentQualifies(i)
        THEN \E i \in DOMAIN text.rent :
                /\ RentQualifies(i)
                /\ \A j \in 1..(i - 1) : ~RentQualifies(j)
                /\ annual_rent = RentValue(i)
        ELSE IsNone(annual_rent)

\* Two qualifying patterns with different values: the earlier one is the
\* accepted rent.
C9_Witness ==
    /\ pc = "per_acre"
    /\ \E i, j \in DOMAIN text.rent :
          /\ i < j
          /\ RentQualifies(i) /\ RentQualifies(j)
          /\ RentValue(i) # RentValue(j)
          /\ annual_rent = RentValue(i)

\* C10: a renewal clause never lowers the resolved term: for a non-empty list
\* C of pattern-derived candidates and a clause with N, M >= 0, the term
\* resolved from C plus the renewal total is at least the term resolved from
\* C alone when that is non-null, and is null when that is null.
PatternCandidates ==
    SubSeq(term_candidates, 1, Len(term_candidates) - 1)
C10_RenewalNeverLowers ==
    (pc = "done" /\ ~IsNone(total_term_from_renewal) /\ PatternCandidates # <<>>)
       => LET alone == resolve_term(PatternCandidates)
          IN  IF IsNone(alone) THEN IsNone(term_years)
              ELSE ~IsNone(term_years) /\ IntLeq(Val(alone), Val(term_years))

\* A clause that raised the term, from a fallback value to its total.
C10_Witness ==
    /\ pc = "done"
    /\ ~IsNone(total_term_from_renewal)
    /\ PatternCandidates # <<>>
    /\ ~IsNone(resolve_term(PatternCandidates))
    /\ ~IsNone(term_years)
    /\ IntLess(Val(resolve_term(PatternCandidates)), Val(term_years))

\* A clause after candidates that resolve to nothing: the term stays null.
C10_WitnessNull ==
    /\ pc = "done"
    /\ ~IsNone(total_term_from_renewal)
    /\ PatternCandidates # <<>>
    /\ IsNone(resolve_term(PatternCandidates))
    /\ IsNone(term_years)

====
